---- MODULE Spec2Model ----
(***************************************************************************)
(* Model of libosmium's osmium/index/relations_map.hpp:                    *)
(*   detail::flat_map, RelationsMapIndex, RelationsMapIndexes and          *)
(*   RelationsMapStash.                                                    *)
(*                                                                         *)
(* An osmium::unsigned_object_id_type is a 64 bit unsigned integer.  It is *)
(* represented as a record [hi, lo] standing for hi * 2^32 + lo, so that   *)
(* the narrowing static_cast<uint32_t> of kv_pair's constructors keeps its *)
(* real width: it drops hi.  A uint32_t is a plain natural number.         *)
(***************************************************************************)
EXTENDS Integers, Sequences, FiniteSets, TLC

\* ---- bounds of the model ------------------------------------------------
\* number of flat_map::set calls made through add / add_members in a run
\* that fills one stash and builds from it (SpecIndex, SpecMembers)
MaxSets == 3
\* number of flat_map::set calls in a run that uses every operation on two
\* stashes (Spec)
MaxSetsAnyUse == 1
\* number of flat_map::set calls in a run whose index is read by two threads
\* (SpecReaders)
MaxSetsReaders == 2
\* number of flat_map::set calls in a run that fills, reads and moves two
\* stashes (SpecStash)
MaxSetsStash == 2
\* number of members of a relation handed to add_members (SpecMembers)
MaxMembers == 2

\* ---- identifiers ----------------------------------------------------------
Id(h, l) == [hi |-> h, lo |-> l]

\* the identifiers fed to the program: 1, 2 and 2^32 + 1, which is congruent
\* to 1 modulo 2^32
Ids == {Id(0, 1), Id(0, 2), Id(1, 1)}

\* mutant of static_cast<uint32_t>(id): bit 32 is folded into the result
static_cast_uint32_keeping_bit_32(id) == id.lo + 4 * id.hi

\* static_cast<uint32_t>(id): the value modulo 2^32
static_cast_uint32(id) == id.lo

\* implicit conversion uint32_t -> osmium::unsigned_object_id_type
to_object_id(x) == Id(0, x)

\* ---- detail::flat_map -----------------------------------------------------
\* kv_pair(key_id, value_id)
kv_pair(key_id, value_id) ==
    [key |-> static_cast_uint32(key_id), value |-> static_cast_uint32(value_id)]

\* explicit kv_pair(key_id): value is value-initialised
kv_pair_key(key_id) == [key |-> static_cast_uint32(key_id), value |-> 0]

\* mutant of kv_pair::operator<: only the keys are compared
kv_less_keys(a, b) == a.key < b.key

\* kv_pair::operator<
kv_less(a, b) == a.key < b.key \/ (a.key = b.key /\ a.value < b.value)

\* mutant of kv_pair::operator==: only the keys are compared
kv_equal_keys(a, b) == a.key = b.key

\* kv_pair::operator==
kv_equal(a, b) == a.key = b.key /\ a.value = b.value

\* mutant of flat_map::set: an entry the map already holds is not appended
set_if_absent(m, key, value) ==
    IF \E i \in 1..Len(m) : m[i] = kv_pair(key, value) THEN m
    ELSE Append(m, kv_pair(key, value))

\* flat_map::set
set(m, key, value) == Append(m, kv_pair(key, value))

\* mutant of flat_map::flip_in_place: nothing is swapped
flip_in_place_nothing(m) == m

\* flat_map::flip_in_place
flip_in_place(m) == [i \in 1..Len(m) |-> [key |-> m[i].value, value |-> m[i].key]]

\* flat_map::flip_copy: a new map filled by set(p.value, p.key)
RECURSIVE flip_copy_loop(_, _, _)
flip_copy_loop(m, i, map) ==
    IF i > Len(m) THEN map
    ELSE flip_copy_loop(m, i + 1,
                        set(map, to_object_id(m[i].value), to_object_id(m[i].key)))

\* mutant of flat_map::flip_copy: the copy is filled by set(p.key, p.value)
flip_copy_unflipped(m) == m

flip_copy(m) == flip_copy_loop(m, 1, <<>>)

\* mutant of flat_map::sort_unique's std::sort: the sort is left out
std_sort_left_out(m) == m

\* mutant of flat_map::sort_unique's std::sort: sorted with operator> in the
\* place of operator<
std_sort_descending(m) == SortSeq(m, LAMBDA a, b : kv_less(b, a))

\* std::sort(m_map.begin(), m_map.end()) with kv_pair::operator<
std_sort(m) == SortSeq(m, kv_less)

\* mutant of flat_map::sort_unique's erase: m_map.erase(last) erases the one
\* element at last, where erase(last, end) erases all from last on.  (The
\* elements std::unique leaves from last on are those that were there.)
RECURSIVE std_unique_kept(_)
std_unique_kept(m) ==
    IF Len(m) <= 1 THEN m
    ELSE IF m[1] = m[2] THEN std_unique_kept(Tail(m))
         ELSE <<m[1]>> \o std_unique_kept(Tail(m))

std_unique_erase_one(m) ==
    LET kept == std_unique_kept(m)
    IN  IF Len(kept) = Len(m) THEN m
        ELSE kept \o SubSeq(m, Len(kept) + 2, Len(m))

\* mutant of flat_map::sort_unique: std::unique and erase are left out
std_unique_left_out(m) == m

\* std::unique followed by erase(last, end): one element of every run of
\* consecutive equal elements is kept
RECURSIVE std_unique(_)
std_unique(m) ==
    IF Len(m) <= 1 THEN m
    ELSE IF kv_equal(m[1], m[2]) THEN std_unique(Tail(m))
         ELSE <<m[1]>> \o std_unique(Tail(m))

\* flat_map::sort_unique
sort_unique(m) == std_unique(std_sort(m))

\* std::lower_bound over [first, first + count) with the key-only comparison
RECURSIVE lower_bound(_, _, _, _)
lower_bound(m, val, first, count) ==
    IF count <= 0 THEN first
    ELSE LET step == count \div 2
             it   == first + step
         IN  IF m[it].key < val.key
             THEN lower_bound(m, val, it + 1, count - (step + 1))
             ELSE lower_bound(m, val, first, step)

\* mutant of std::upper_bound: the end of the range is returned
upper_bound_end(m, val, first, count) == first + count

\* std::upper_bound over [first, first + count) with the key-only comparison
RECURSIVE upper_bound(_, _, _, _)
upper_bound(m, val, first, count) ==
    IF count <= 0 THEN first
    ELSE LET step == count \div 2
             it   == first + step
         IN  IF ~(val.key < m[it].key)
             THEN upper_bound(m, val, it + 1, count - (step + 1))
             ELSE upper_bound(m, val, first, step)

\* flat_map::get: std::equal_range, as the pair of positions <<first, second>>
get(m, key) ==
    <<lower_bound(m, kv_pair_key(key), 1, Len(m)),
      upper_bound(m, kv_pair_key(key), 1, Len(m))>>

\* mutant of flat_map::empty: return !m_map.empty()
flat_map_empty_negated(m) == Len(m) # 0

\* flat_map::empty
flat_map_empty(m) == Len(m) = 0

\* flat_map::size
flat_map_size(m) == Len(m)

\* ---- RelationsMapIndex ------------------------------------------------------
\* RelationsMapIndex::for_each: the sequence of the visitor's arguments
for_each(m_map, id) ==
    LET parents == get(m_map, id)
    IN  [i \in 1..(parents[2] - parents[1]) |->
            to_object_id(m_map[parents[1] + i - 1].value)]

\* RelationsMapIndex::for_each_parent (deprecated twin of for_each)
for_each_parent(m_map, member_id) ==
    LET parents == get(m_map, member_id)
    IN  [i \in 1..(parents[2] - parents[1]) |->
            to_object_id(m_map[parents[1] + i - 1].value)]

\* RelationsMapIndex::empty
RelationsMapIndex_empty(m_map) == flat_map_empty(m_map)

\* RelationsMapIndex::size
RelationsMapIndex_size(m_map) == flat_map_size(m_map)

\* ---- the program state -----------------------------------------------------
VARIABLES
    NDEBUG,     \* build configuration: TRUE when the asserts are compiled out
    live,       \* live[s]: the RelationsMapStash object s has been constructed
    stash,      \* stash[s]: the members m_map and m_valid of stash s
    log,        \* log[s]: the (key, value) arguments, as passed, of the set
                \* calls that produced the entries now held in stash[s].m_map
    returned,   \* the RelationsMapIndex / RelationsMapIndexes returned by the
                \* latest build_* call, with the log of the entries it took over
    frozen,     \* the stash objects on which a build_* call has executed
    budget,     \* number of flat_map::set calls the run may still make
    aborted,    \* an assert has failed: the program was aborted
    last,       \* the latest call: operation, object, outcome, argument, result
    relation,   \* the osmium::Relation a SpecMembers run hands to add_members
    readers     \* readers[r]: where thread r is in its call of a const member
                \* function of the returned index (SpecReaders)

vars ==
    <<NDEBUG, live, stash, log, returned, frozen, budget, aborted, last,
      relation, readers>>

\* the two RelationsMapStash objects of a run
Stashes == {"s1", "s2"}

\* osmium::item_type of a relation member
ItemTypes == {"node", "way", "relation"}

\* one osmium::RelationMember: type() and positive_ref()
Member == [type : ItemTypes, ref : Ids]

\* RelationMemberList of up to max members
MemberLists(max) == UNION {[1..n -> Member] : n \in 0..max}

\* osmium::Relation: positive_id() and members()
Relations(max) == [id : Ids, members : MemberLists(max)]

\* the relations with id 2 whose members all refer to id 1: they differ in
\* the number and the types of their members
RelationsOfOneParent(max) ==
    {rel \in Relations(max) :
        /\ rel.id = Id(0, 2)
        /\ \A i \in 1..Len(rel.members) : rel.members[i].ref = Id(0, 1)}

NoArg == Id(0, 0)
NoRelation == [id |-> NoArg, members |-> <<>>]

\* RelationsMapStash() = default: an empty m_map, m_valid = true
RelationsMapStash == [m_map |-> <<>>, m_valid |-> TRUE]

NoIndex ==
    [kind |-> "none", by |-> "none", m_map |-> <<>>,
     m_member_to_parent |-> <<>>, m_parent_to_member |-> <<>>, log |-> <<>>]

\* RelationsMapIndex(map_type&& map)
RelationsMapIndex(by, map, l) ==
    [kind |-> "index", by |-> by, m_map |-> map,
     m_member_to_parent |-> <<>>, m_parent_to_member |-> <<>>, log |-> l]

\* RelationsMapIndexes(map_type&& map1, map_type&& map2)
RelationsMapIndexes(by, map1, map2, l) ==
    [kind |-> "indexes", by |-> by, m_map |-> <<>>,
     m_member_to_parent |-> map1, m_parent_to_member |-> map2, log |-> l]

Call(op, s, ok, arg, ret) ==
    [op |-> op, s |-> s, ok |-> ok, arg |-> arg, ret |-> ret]

\* the threads that read the returned index
Readers == {"r1", "r2"}

\* a thread that is in no call
Idle ==
    [pc |-> "idle", op |-> "none", side |-> "none", id |-> NoArg,
     it |-> 0, second |-> 0, visited |-> <<>>, ret |-> 0]

\* the state after "RelationsMapStash s1;" in a build with or without asserts
Start(ndebug, sets, rel) ==
    /\ NDEBUG \in ndebug
    /\ live = [s \in Stashes |-> s = "s1"]
    /\ stash = [s \in Stashes |-> RelationsMapStash]
    /\ log = [s \in Stashes |-> <<>>]
    /\ returned = NoIndex
    /\ frozen = {}
    /\ budget = sets
    /\ aborted = FALSE
    /\ last = Call("construct", "s1", TRUE, NoArg, 0)
    /\ relation \in rel
    /\ readers = [r \in Readers |-> Idle]

Init == Start(BOOLEAN, MaxSetsAnyUse, {NoRelation})

\* assert(m_valid && "..."): fails only when asserts are compiled in
assert_fails(s) == ~NDEBUG /\ ~stash[s].m_valid

\* the failed assert aborts the program: nothing else changes
Abort(op, s) ==
    /\ aborted' = TRUE
    /\ last' = Call(op, s, FALSE, NoArg, 0)
    /\ UNCHANGED <<NDEBUG, readers, live, stash, log, returned, frozen, budget, relation>>

\* RelationsMapStash s;  (default constructor)
Construct(s) ==
    /\ ~aborted
    /\ ~live[s]
    /\ live' = [live EXCEPT ![s] = TRUE]
    /\ stash' = [stash EXCEPT ![s] = RelationsMapStash]
    /\ log' = [log EXCEPT ![s] = <<>>]
    /\ last' = Call("construct", s, TRUE, NoArg, 0)
    /\ UNCHANGED <<NDEBUG, readers, returned, frozen, budget, aborted, relation>>

\* mutant of the move operations: m_valid is not copied from the source
moved_to_valid(other) == [m_map |-> other.m_map, m_valid |-> TRUE]

\* the defaulted member-wise move: m_map is moved (the source vector is left
\* empty), the bool m_valid is copied
moved_to(other) == [m_map |-> other.m_map, m_valid |-> other.m_valid]

moved_from(other) == [m_map |-> <<>>, m_valid |-> other.m_valid]

\* RelationsMapStash s{std::move(other)};  (move constructor)
MoveConstruct(other, s) ==
    /\ ~aborted
    /\ live[other] /\ ~live[s]
    /\ live' = [live EXCEPT ![s] = TRUE]
    /\ stash' = [stash EXCEPT ![s] = moved_to(stash[other]),
                              ![other] = moved_from(stash[other])]
    /\ log' = [log EXCEPT ![s] = log[other], ![other] = <<>>]
    /\ last' = Call("move_construct", s, TRUE, NoArg, other)
    /\ UNCHANGED <<NDEBUG, readers, returned, frozen, budget, aborted, relation>>

\* s = std::move(other);  (move assignment)
MoveAssign(other, s) ==
    /\ ~aborted
    /\ live[other] /\ live[s] /\ other # s
    /\ stash' = [stash EXCEPT ![s] = moved_to(stash[other]),
                              ![other] = moved_from(stash[other])]
    /\ log' = [log EXCEPT ![s] = log[other], ![other] = <<>>]
    /\ last' = Call("move_assign", s, TRUE, NoArg, other)
    /\ UNCHANGED <<NDEBUG, readers, live, returned, frozen, budget, aborted, relation>>

\* RelationsMapStash::add
Add(s, member_id, relation_id) ==
    /\ ~aborted
    /\ live[s]
    /\ assert_fails(s) \/ budget > 0
    /\ IF assert_fails(s) THEN Abort("add", s)
       ELSE /\ stash' = [stash EXCEPT ![s].m_map = set(@, member_id, relation_id)]
            /\ log' = [log EXCEPT ![s] = Append(@, <<member_id, relation_id>>)]
            /\ budget' = budget - 1
            /\ last' = Call("add", s, TRUE, NoArg, 0)
            /\ UNCHANGED <<NDEBUG, readers, live, returned, frozen, aborted, relation>>

\* mutant of RelationsMapStash::add_members: the test of member.type() is
\* left out
RECURSIVE add_members_loop_any_type(_, _, _)
add_members_loop_any_type(m, rel, i) ==
    IF i > Len(rel.members) THEN m
    ELSE add_members_loop_any_type(set(m, rel.members[i].ref, rel.id), rel, i + 1)

\* the loop of RelationsMapStash::add_members over relation.members()
RECURSIVE add_members_loop(_, _, _)
add_members_loop(m, rel, i) ==
    IF i > Len(rel.members) THEN m
    ELSE IF rel.members[i].type = "relation"
         THEN add_members_loop(set(m, rel.members[i].ref, rel.id), rel, i + 1)
         ELSE add_members_loop(m, rel, i + 1)

\* the arguments of the set calls that loop makes, in order
RECURSIVE add_members_log(_, _, _)
add_members_log(l, rel, i) ==
    IF i > Len(rel.members) THEN l
    ELSE IF rel.members[i].type = "relation"
         THEN add_members_log(Append(l, <<rel.members[i].ref, rel.id>>), rel, i + 1)
         ELSE add_members_log(l, rel, i + 1)

\* RelationsMapStash::add_members
AddMembers(s, rel) ==
    /\ ~aborted
    /\ live[s]
    /\ assert_fails(s) \/ Len(add_members_log(<<>>, rel, 1)) <= budget
    /\ IF assert_fails(s) THEN Abort("add_members", s)
       ELSE /\ stash' = [stash EXCEPT ![s].m_map = add_members_loop(@, rel, 1)]
            /\ log' = [log EXCEPT ![s] = add_members_log(@, rel, 1)]
            /\ budget' = budget - Len(add_members_log(<<>>, rel, 1))
            /\ last' = Call("add_members", s, TRUE, NoArg, 0)
            /\ UNCHANGED <<NDEBUG, readers, live, returned, frozen, aborted, relation>>

\* RelationsMapStash::empty
RelationsMapStash_empty(st) == flat_map_empty(st.m_map)

StashEmpty(s) ==
    /\ ~aborted
    /\ live[s]
    /\ IF assert_fails(s) THEN Abort("empty", s)
       ELSE /\ last' = Call("empty", s, TRUE, NoArg, RelationsMapStash_empty(stash[s]))
            /\ UNCHANGED <<NDEBUG, readers, live, stash, log, returned, frozen, budget, aborted, relation>>

\* RelationsMapStash::size
RelationsMapStash_size(st) == flat_map_size(st.m_map)

StashSize(s) ==
    /\ ~aborted
    /\ live[s]
    /\ IF assert_fails(s) THEN Abort("size", s)
       ELSE /\ last' = Call("size", s, TRUE, NoArg, RelationsMapStash_size(stash[s]))
            /\ UNCHANGED <<NDEBUG, readers, live, stash, log, returned, frozen, budget, aborted, relation>>

\* mutant of the build_* operations: m_valid = false is left out
consumed_still_valid(st) == [m_map |-> <<>>, m_valid |-> st.m_valid]

\* the stash a build_* call leaves behind: m_map was moved from, and
\* m_valid = false is compiled only #ifndef NDEBUG
consumed(st) == [m_map |-> <<>>, m_valid |-> IF NDEBUG THEN st.m_valid ELSE FALSE]

\* the part common to the build_* operations: the assert, the stash left
\* behind, and the object handed to the caller
Build(op, s, result) ==
    /\ ~aborted
    /\ live[s]
    /\ IF assert_fails(s) THEN Abort(op, s)
       ELSE /\ returned' = result
            /\ stash' = [stash EXCEPT ![s] = consumed(@)]
            /\ log' = [log EXCEPT ![s] = <<>>]
            /\ frozen' = frozen \cup {s}
            /\ last' = Call(op, s, TRUE, NoArg, 0)
            /\ UNCHANGED <<NDEBUG, readers, live, budget, aborted, relation>>

\* RelationsMapStash::build_index (deprecated): the m_map of the index
build_index(m_map) == sort_unique(m_map)

BuildIndex(s) ==
    Build("build_index", s,
          RelationsMapIndex("build_index", build_index(stash[s].m_map), log[s]))

\* RelationsMapStash::build_member_to_parent_index: the m_map of the index
build_member_to_parent_index(m_map) == sort_unique(m_map)

BuildMemberToParentIndex(s) ==
    Build("build_member_to_parent_index", s,
          RelationsMapIndex("build_member_to_parent_index",
                            build_member_to_parent_index(stash[s].m_map), log[s]))

\* RelationsMapStash::build_parent_to_member_index: the m_map of the index
build_parent_to_member_index(m_map) == sort_unique(flip_in_place(m_map))

BuildParentToMemberIndex(s) ==
    Build("build_parent_to_member_index", s,
          RelationsMapIndex("build_parent_to_member_index",
                            build_parent_to_member_index(stash[s].m_map), log[s]))

\* mutant of RelationsMapStash::build_indexes: reverse_map shares the storage
\* of m_map, which is flipped in place to make it
build_indexes_sharing_storage(m_map) ==
    <<sort_unique(flip_in_place(m_map)), sort_unique(flip_in_place(m_map))>>

\* RelationsMapStash::build_indexes: <<m_map, reverse_map>> as handed to the
\* RelationsMapIndexes constructor
build_indexes(m_map) ==
    LET reverse_map == sort_unique(flip_copy(m_map))
    IN  <<sort_unique(m_map), reverse_map>>

BuildIndexes(s) ==
    Build("build_indexes", s,
          RelationsMapIndexes("build_indexes", build_indexes(stash[s].m_map)[1],
                              build_indexes(stash[s].m_map)[2], log[s]))

\* the RelationsMapIndex objects reachable through the returned value
Sides ==
    IF returned.kind = "index" THEN {"m_map"}
    ELSE IF returned.kind = "indexes"
         THEN {"m_member_to_parent", "m_parent_to_member"}
         ELSE {}

\* a const member function called on the returned value
Query(op, side, arg, ret) ==
    /\ ~aborted
    /\ last' = Call(op, side, TRUE, arg, ret)
    /\ UNCHANGED <<NDEBUG, readers, live, stash, log, returned, frozen, budget, aborted, relation>>

\* RelationsMapIndex::for_each on one of them
ForEach(side, id) ==
    /\ side \in Sides
    /\ Query("for_each", side, id, for_each(returned[side], id))

\* RelationsMapIndex::for_each_parent on one of them
ForEachParent(side, member_id) ==
    /\ side \in Sides
    /\ Query("for_each_parent", side, member_id,
             for_each_parent(returned[side], member_id))

\* RelationsMapIndex::empty on one of them
IndexEmpty(side) ==
    /\ side \in Sides
    /\ Query("index_empty", side, NoArg, RelationsMapIndex_empty(returned[side]))

\* RelationsMapIndex::size on one of them
IndexSize(side) ==
    /\ side \in Sides
    /\ Query("index_size", side, NoArg, RelationsMapIndex_size(returned[side]))

\* RelationsMapIndexes::empty
RelationsMapIndexes_empty(ixs) == RelationsMapIndex_empty(ixs.m_member_to_parent)

IndexesEmpty ==
    /\ returned.kind = "indexes"
    /\ Query("indexes_empty", "indexes", NoArg, RelationsMapIndexes_empty(returned))

\* RelationsMapIndexes::size
RelationsMapIndexes_size(ixs) == RelationsMapIndex_size(ixs.m_member_to_parent)

IndexesSize ==
    /\ returned.kind = "indexes"
    /\ Query("indexes_size", "indexes", NoArg, RelationsMapIndexes_size(returned))

\* ---- threads reading one index ---------------------------------------------
\* a step of reader r: only the thread's own locals change
Reads(r, locals) ==
    /\ ~aborted
    /\ readers' = [readers EXCEPT ![r] = locals]
    /\ UNCHANGED <<NDEBUG, live, stash, log, returned, frozen, budget, aborted,
                   last, relation>>

\* r enters for_each / for_each_parent:  const auto parents = m_map.get(id);
\* auto it = parents.first
ReaderGet(r, op, side, id) ==
    /\ readers[r].pc = "idle"
    /\ side \in Sides
    /\ Reads(r, [pc |-> "loop", op |-> op, side |-> side, id |-> id,
                  it |-> get(returned[side], id)[1],
                  second |-> get(returned[side], id)[2],
                  visited |-> <<>>, ret |-> 0])

ReaderForEach(r, side, id) == ReaderGet(r, "for_each", side, id)

ReaderForEachParent(r, side, member_id) ==
    ReaderGet(r, "for_each_parent", side, member_id)

\* mutant of the loop body: func(it->key)
func_argument_key(m_map, it) == to_object_id(m_map[it].key)

\* the argument of func in the loop body: it->value
func_argument(m_map, it) == to_object_id(m_map[it].value)

\* one turn of the loop:  it != parents.second;  func(it->value);  ++it
ReaderVisit(r) ==
    /\ readers[r].pc = "loop"
    /\ readers[r].it # readers[r].second
    /\ Reads(r, [readers[r] EXCEPT
                    !.visited = Append(@, func_argument(returned[readers[r].side],
                                                        readers[r].it)),
                    !.it = @ + 1])

\* it == parents.second: the call returns
ReaderReturn(r) ==
    /\ readers[r].pc = "loop"
    /\ readers[r].it = readers[r].second
    /\ Reads(r, [readers[r] EXCEPT !.pc = "done"])

\* r calls empty(): one read of the vector's bounds
ReaderEmpty(r, side) ==
    /\ readers[r].pc = "idle"
    /\ side \in Sides
    /\ Reads(r, [Idle EXCEPT !.pc = "done", !.op = "empty", !.side = side,
                             !.ret = RelationsMapIndex_empty(returned[side])])

\* r calls size()
ReaderSize(r, side) ==
    /\ readers[r].pc = "idle"
    /\ side \in Sides
    /\ Reads(r, [Idle EXCEPT !.pc = "done", !.op = "size", !.side = side,
                             !.ret = RelationsMapIndex_size(returned[side])])

\* r has used the result and is ready for its next call
ReaderNextCall(r) ==
    /\ readers[r].pc = "done"
    /\ Reads(r, Idle)

\* ---- the specifications -----------------------------------------------------
\* Spec: any use of the header's operations on two stash objects, in a build
\* with or without asserts.
Next ==
    \/ \E s \in Stashes : Construct(s)
    \/ \E other, s \in Stashes : MoveConstruct(other, s)
    \/ \E other, s \in Stashes : MoveAssign(other, s)
    \/ \E s \in Stashes, member_id, relation_id \in Ids : Add(s, member_id, relation_id)
    \/ \E s \in Stashes, rel \in Relations(1) : AddMembers(s, rel)
    \/ \E s \in Stashes : StashEmpty(s)
    \/ \E s \in Stashes : StashSize(s)
    \/ \E s \in Stashes : BuildIndex(s)
    \/ \E s \in Stashes : BuildMemberToParentIndex(s)
    \/ \E s \in Stashes : BuildParentToMemberIndex(s)
    \/ \E s \in Stashes : BuildIndexes(s)
    \/ \E side \in Sides, id \in Ids : ForEach(side, id)
    \/ \E side \in Sides, member_id \in Ids : ForEachParent(side, member_id)
    \/ \E side \in Sides : IndexEmpty(side)
    \/ \E side \in Sides : IndexSize(side)
    \/ IndexesEmpty
    \/ IndexesSize

Spec == Init /\ [][Next]_vars

\* SpecIndex: one stash is filled by add, an index is built from it and
\* queried, in a build with asserts.
InitIndex == Start({FALSE}, MaxSets, {NoRelation})

NextIndex ==
    \/ \E member_id, relation_id \in Ids : Add("s1", member_id, relation_id)
    \/ BuildIndex("s1")
    \/ BuildMemberToParentIndex("s1")
    \/ BuildParentToMemberIndex("s1")
    \/ BuildIndexes("s1")
    \/ \E side \in Sides, id \in Ids : ForEach(side, id)
    \/ \E side \in Sides, member_id \in Ids : ForEachParent(side, member_id)
    \/ \E side \in Sides : IndexEmpty(side)
    \/ \E side \in Sides : IndexSize(side)
    \/ IndexesEmpty
    \/ IndexesSize

SpecIndex == InitIndex /\ [][NextIndex]_vars

\* SpecMembers: one stash is filled by add_members with one relation, its
\* size is read, an index is built from it and queried.
InitMembers == Start({FALSE}, MaxSets, Relations(MaxMembers))

NextMembers ==
    \/ AddMembers("s1", relation)
    \/ StashEmpty("s1")
    \/ StashSize("s1")
    \/ BuildIndex("s1")
    \/ BuildMemberToParentIndex("s1")
    \/ BuildParentToMemberIndex("s1")
    \/ BuildIndexes("s1")
    \/ \E side \in Sides, id \in Ids : ForEach(side, id)
    \/ \E side \in Sides, member_id \in Ids : ForEachParent(side, member_id)
    \/ \E side \in Sides : IndexEmpty(side)
    \/ \E side \in Sides : IndexSize(side)
    \/ IndexesEmpty
    \/ IndexesSize

SpecMembers == InitMembers /\ [][NextMembers]_vars

\* SpecReaders: one stash is filled by add, an index is built from it, and
\* two threads read it without synchronisation, each step of a call
\* interleaved with the steps of the other thread.
InitReaders == Start({FALSE}, MaxSetsReaders, {NoRelation})

NextReaders ==
    \/ \E member_id, relation_id \in Ids : Add("s1", member_id, relation_id)
    \/ BuildMemberToParentIndex("s1")
    \/ \E r \in Readers, side \in Sides, id \in Ids : ReaderForEach(r, side, id)
    \/ \E r \in Readers, side \in Sides, id \in Ids : ReaderForEachParent(r, side, id)
    \/ \E r \in Readers : ReaderVisit(r)
    \/ \E r \in Readers : ReaderReturn(r)
    \/ \E r \in Readers, side \in Sides : ReaderEmpty(r, side)
    \/ \E r \in Readers, side \in Sides : ReaderSize(r, side)
    \/ \E r \in Readers : ReaderNextCall(r)

SpecReaders == InitReaders /\ [][NextReaders]_vars

\* SpecStash: two stash objects are filled by add and by add_members with
\* one relation, their size is read, they are moved, and an index is built.
InitStash == Start({FALSE}, MaxSetsStash, RelationsOfOneParent(MaxMembers))

NextStash ==
    \/ \E s \in Stashes : Construct(s)
    \/ \E other, s \in Stashes : MoveConstruct(other, s)
    \/ \E other, s \in Stashes : MoveAssign(other, s)
    \/ \E s \in Stashes, member_id, relation_id \in Ids : Add(s, member_id, relation_id)
    \/ \E s \in Stashes : AddMembers(s, relation)
    \/ \E s \in Stashes : StashEmpty(s)
    \/ \E s \in Stashes : StashSize(s)
    \/ \E s \in Stashes : BuildMemberToParentIndex(s)

SpecStash == InitStash /\ [][NextStash]_vars

\* ---- vocabulary of the claims ------------------------------------------------
Range(f) == {f[i] : i \in DOMAIN f}

\* a < b on 64 bit identifiers
id_less(a, b) == a.hi < b.hi \/ (a.hi = b.hi /\ a.lo < b.lo)

StrictlyAscending(r) == \A i \in 1..(Len(r) - 1) : id_less(r[i], r[i + 1])

\* a and b are congruent modulo 2^32
Congruent(a, b) == a.lo = b.lo

\* id modulo 2^32, as an identifier
Mod2to32(id) == Id(0, id.lo)

Below2to32(id) == id.hi = 0

\* the m_map of a fresh stash after the add calls of log l
RECURSIVE Populated(_)
Populated(l) ==
    IF l = <<>> THEN <<>>
    ELSE set(Populated(SubSeq(l, 1, Len(l) - 1)), l[Len(l)][1], l[Len(l)][2])

\* the queried index maps parents to members
ParentToMember(side) ==
    \/ side = "m_parent_to_member"
    \/ side = "m_map" /\ returned.by = "build_parent_to_member_index"

\* the key and the value an added pair has in the queried index
KeyIn(side, p) == IF ParentToMember(side) THEN p[2] ELSE p[1]

ValueIn(side, p) == IF ParentToMember(side) THEN p[1] ELSE p[2]

AllBelow2to32(l) == \A p \in Range(l) : Below2to32(p[1]) /\ Below2to32(p[2])

\* ---- C1 -----------------------------------------------------------------------
\* C1 as stated: after add calls on a fresh stash and
\* build_member_to_parent_index(), for_each(k) visits exactly the distinct v's
\* added for k, each once, strictly ascending.
C1_ForEachVisitsAddedValues ==
    (last.op = "for_each" /\ returned.by = "build_member_to_parent_index")
        => /\ Range(last.ret) =
                {p[2] : p \in {q \in Range(returned.log) : q[1] = last.arg}}
           /\ StrictlyAscending(last.ret)

\* C1 as amended: for_each(k) visits exactly the distinct values v mod 2^32 of
\* the added pairs (k', v) with k' congruent to k modulo 2^32, each once,
\* strictly ascending; when k and all added identifiers are below 2^32 these
\* are the distinct v's added for k.
C1_ForEachVisitsAddedValuesMod2to32 ==
    (last.op = "for_each" /\ returned.by = "build_member_to_parent_index")
        => /\ Range(last.ret) =
                {Mod2to32(p[2]) :
                    p \in {q \in Range(returned.log) : Congruent(q[1], last.arg)}}
           /\ StrictlyAscending(last.ret)
           /\ (Below2to32(last.arg) /\ AllBelow2to32(returned.log))
                => Range(last.ret) =
                     {p[2] : p \in {q \in Range(returned.log) : q[1] = last.arg}}

\* three adds below 2^32 with a repeated pair, and for_each visits two values
C1_Witness ==
    /\ last.op = "for_each" /\ returned.by = "build_member_to_parent_index"
    /\ Len(returned.log) = 3 /\ Cardinality(Range(returned.log)) = 2
    /\ returned.log[1] = returned.log[3]
    /\ AllBelow2to32(returned.log) /\ Below2to32(last.arg)
    /\ Len(last.ret) = 2

\* ---- C2 -----------------------------------------------------------------------
\* C2 as stated: after build_parent_to_member_index(), for_each(v) visits
\* exactly the distinct k's added paired with v, each once, ascending.
C2_ForEachVisitsAddedKeys ==
    (last.op = "for_each" /\ returned.by = "build_parent_to_member_index")
        => /\ Range(last.ret) =
                {p[1] : p \in {q \in Range(returned.log) : q[2] = last.arg}}
           /\ StrictlyAscending(last.ret)

\* C2 as amended: for_each(v) visits exactly the distinct k mod 2^32 of the
\* added pairs (k, v') with v' congruent to v modulo 2^32, each once,
\* ascending; below 2^32 these are the distinct k's added paired with v.
C2_ForEachVisitsAddedKeysMod2to32 ==
    (last.op = "for_each" /\ returned.by = "build_parent_to_member_index")
        => /\ Range(last.ret) =
                {Mod2to32(p[1]) :
                    p \in {q \in Range(returned.log) : Congruent(q[2], last.arg)}}
           /\ StrictlyAscending(last.ret)
           /\ (Below2to32(last.arg) /\ AllBelow2to32(returned.log))
                => Range(last.ret) =
                     {p[1] : p \in {q \in Range(returned.log) : q[2] = last.arg}}

\* two members of one parent added out of order, the second one twice
C2_Witness ==
    /\ last.op = "for_each" /\ returned.by = "build_parent_to_member_index"
    /\ returned.log = <<<<Id(0, 2), Id(0, 2)>>, <<Id(0, 1), Id(0, 2)>>,
                        <<Id(0, 2), Id(0, 2)>>>>
    /\ last.arg = Id(0, 2)
    /\ last.ret = <<Id(0, 1), Id(0, 2)>>

\* ---- C3 -----------------------------------------------------------------------
\* C3: the two sides of build_indexes() hold the same entries, give the same
\* for_each results for every id and have the same size as the indexes
\* build_member_to_parent_index() and build_parent_to_member_index() build
\* from an identically populated stash.
C3_BuildIndexesMatchesSingleBuilds ==
    returned.by = "build_indexes"
        => LET m   == Populated(returned.log)
               m2p == build_member_to_parent_index(m)
               p2m == build_parent_to_member_index(m)
           IN  /\ returned.m_member_to_parent = m2p
               /\ returned.m_parent_to_member = p2m
               /\ RelationsMapIndex_size(returned.m_member_to_parent)
                    = RelationsMapIndex_size(m2p)
               /\ RelationsMapIndex_size(returned.m_parent_to_member)
                    = RelationsMapIndex_size(p2m)
               /\ \A id \in Ids :
                    /\ for_each(returned.m_member_to_parent, id) = for_each(m2p, id)
                    /\ for_each(returned.m_parent_to_member, id) = for_each(p2m, id)

\* build_indexes() ran on three entries that were neither sorted nor distinct
C3_Witness ==
    /\ returned.by = "build_indexes"
    /\ Len(returned.log) = 3
    /\ Len(returned.m_member_to_parent) = 2
    /\ returned.m_parent_to_member # returned.m_member_to_parent
    /\ Populated(returned.log) # std_sort(Populated(returned.log))

\* ---- C7 -----------------------------------------------------------------------
\* C7 as stated: on an index returned by any build_* operation, for_each(id)
\* for an id never added as a key of that index's direction visits nothing.
C7_AbsentKeyVisitsNothing ==
    (last.op = "for_each"
        /\ \A p \in Range(returned.log) : KeyIn(last.s, p) # last.arg)
        => last.ret = <<>>

\* C7 as amended: for_each(id) visits nothing when no added key of that
\* index's direction is congruent to id modulo 2^32; when id and the added
\* keys are below 2^32, that is when id was never added as a key.
C7_AbsentKeyMod2to32VisitsNothing ==
    /\ (last.op = "for_each"
          /\ \A p \in Range(returned.log) : ~Congruent(KeyIn(last.s, p), last.arg))
          => last.ret = <<>>
    /\ (last.op = "for_each" /\ Below2to32(last.arg)
          /\ \A p \in Range(returned.log) :
                Below2to32(KeyIn(last.s, p)) /\ KeyIn(last.s, p) # last.arg)
          => last.ret = <<>>

\* a key below the keys of a non-empty index is looked up and nothing visited
C7_Witness ==
    /\ last.op = "for_each" /\ last.arg = Id(0, 1)
    /\ Len(returned.log) = 3
    /\ \A p \in Range(returned.log) : KeyIn(last.s, p) = Id(0, 2)
    /\ last.ret = <<>>

\* ---- C8 -----------------------------------------------------------------------
\* C8: the two sides of every RelationsMapIndexes have the same size and are
\* both empty or both non-empty, so RelationsMapIndexes::size() and empty()
\* answer for both sides.
C8_BothSidesSameSize ==
    returned.kind = "indexes"
        => /\ RelationsMapIndex_size(returned.m_member_to_parent)
                = RelationsMapIndex_size(returned.m_parent_to_member)
           /\ RelationsMapIndex_empty(returned.m_member_to_parent)
                = RelationsMapIndex_empty(returned.m_parent_to_member)
           /\ last.op = "indexes_size"
                => last.ret = RelationsMapIndex_size(returned.m_parent_to_member)
           /\ last.op = "indexes_empty"
                => last.ret = RelationsMapIndex_empty(returned.m_parent_to_member)

\* size() was read from indexes built from two members of one parent, one of
\* them added twice
C8_Witness ==
    /\ last.op = "indexes_size" /\ last.ret = 2
    /\ Len(returned.log) = 3
    /\ \A p \in Range(returned.log) : p[2] = Id(0, 2)

\* ---- C9 -----------------------------------------------------------------------
\* C9: sort_unique applied to a map that sort_unique has just been applied to
\* leaves its entries as they are: the maps a build_* call has sorted, and the
\* sorted form of whatever a stash holds.
C9_SortUniqueIdempotent ==
    /\ \A side \in Sides : sort_unique(returned[side]) = returned[side]
    /\ \A s \in Stashes :
         sort_unique(sort_unique(stash[s].m_map)) = sort_unique(stash[s].m_map)

\* sort_unique ran on three equal entries
C9_Witness ==
    /\ returned.kind = "index"
    /\ Len(returned.log) = 3 /\ Cardinality(Range(returned.log)) = 1
    /\ Len(returned.m_map) = 1

\* ---- C10 ----------------------------------------------------------------------
\* C10: a stash to which no pair has been added answers empty() with true and
\* size() with 0, so does every index built from it by any build_* operation,
\* and for every stash and index empty() is true exactly when size() is 0.
C10_NothingAddedIsEmpty ==
    /\ \A s \in Stashes :
         /\ log[s] = <<>>
              => /\ RelationsMapStash_empty(stash[s])
                 /\ RelationsMapStash_size(stash[s]) = 0
         /\ RelationsMapStash_empty(stash[s]) <=> RelationsMapStash_size(stash[s]) = 0
         /\ (last.op = "empty" /\ last.s = s /\ last.ok)
              => last.ret = (log[s] = <<>>)
         /\ (last.op = "size" /\ last.s = s /\ last.ok)
              => (last.ret = 0 <=> log[s] = <<>>)
    /\ \A side \in Sides :
         /\ returned.log = <<>>
              => /\ RelationsMapIndex_empty(returned[side])
                 /\ RelationsMapIndex_size(returned[side]) = 0
         /\ RelationsMapIndex_empty(returned[side])
              <=> RelationsMapIndex_size(returned[side]) = 0
         /\ (last.op = "index_empty" /\ last.s = side)
              => last.ret = (returned.log = <<>>)
         /\ (last.op = "index_size" /\ last.s = side)
              => (last.ret = 0 <=> returned.log = <<>>)
    /\ returned.kind = "indexes"
         => /\ RelationsMapIndexes_empty(returned)
                 <=> RelationsMapIndexes_size(returned) = 0
            /\ last.op = "indexes_empty" => last.ret = (returned.log = <<>>)
            /\ last.op = "indexes_size" => (last.ret = 0 <=> returned.log = <<>>)

\* add_members ran with a relation that has members, none of them a relation;
\* both indexes were built from the stash and the size of one was read
C10_Witness ==
    /\ Len(relation.members) = MaxMembers
    /\ budget = MaxSets
    /\ returned.kind = "indexes" /\ returned.log = <<>>
    /\ last.op = "index_size" /\ last.ret = 0

\* ---- C6 -----------------------------------------------------------------------
IsRelationMember(member) == member.type = "relation"

\* the entries for the relation-typed members of rel, in member order
EntriesOf(rel) ==
    LET members == SelectSeq(rel.members, IsRelationMember)
    IN  [i \in 1..Len(members) |-> kv_pair(members[i].ref, rel.id)]

\* add_members appends one entry per relation-typed member, in member order,
\* and nothing else
AddMembersAppendsRelationMembers ==
    (last'.op = "add_members" /\ last'.ok)
        => stash'[last'.s].m_map = stash[last'.s].m_map \o EntriesOf(relation)

\* a for_each on a member-to-parent index built after add_members has run
ForEachAfterAddMembers ==
    /\ last.op = "for_each" /\ ~ParentToMember(last.s)
    /\ returned.log # <<>> \/ SelectSeq(relation.members, IsRelationMember) = <<>>

\* C6 as stated: add_members appends exactly one pair (referenced_id,
\* relation_id) per relation-typed member, in member order, and nothing for
\* other members; on the member-to-parent index for_each of a relation-typed
\* member's id visits the relation's id and for_each of another member's id
\* visits nothing.
C6_AddMembersRelationTypedOnly ==
    /\ [][AddMembersAppendsRelationMembers]_vars
    /\ [](ForEachAfterAddMembers
            => \A i \in DOMAIN relation.members :
                 relation.members[i].ref = last.arg
                   => IF IsRelationMember(relation.members[i])
                      THEN last.ret = <<relation.id>>
                      ELSE last.ret = <<>>)

\* C6 as amended: add_members appends exactly one entry (referenced_id mod
\* 2^32, relation_id mod 2^32) per relation-typed member, in member order, and
\* nothing for other members; on the member-to-parent index for_each of a
\* relation-typed member's id visits the relation's id modulo 2^32, and
\* for_each of another member's id visits nothing unless that id is congruent
\* modulo 2^32 to the id of a relation-typed member.
C6_AddMembersRelationTypedOnlyMod2to32 ==
    /\ [][AddMembersAppendsRelationMembers]_vars
    /\ [](ForEachAfterAddMembers
            => \A i \in DOMAIN relation.members :
                 relation.members[i].ref = last.arg
                   => IF IsRelationMember(relation.members[i])
                      THEN last.ret = <<Mod2to32(relation.id)>>
                      ELSE (\A j \in DOMAIN relation.members :
                               IsRelationMember(relation.members[j])
                                 => ~Congruent(relation.members[j].ref, last.arg))
                           => last.ret = <<>>)

\* add_members ran twice on a relation with a way and a relation as members,
\* and for_each on the index visited the relation for the relation member
C6_Witness ==
    /\ relation = [id |-> Id(0, 1),
                   members |-> <<[type |-> "way", ref |-> Id(0, 1)],
                                 [type |-> "relation", ref |-> Id(0, 2)]>>]
    /\ returned.by = "build_member_to_parent_index"
    /\ returned.m_map = <<kv_pair(Id(0, 2), Id(0, 1))>>
    /\ Len(returned.log) = 2
    /\ last.op = "for_each" /\ last.arg = Id(0, 2) /\ last.ret = <<Id(0, 1)>>

\* ---- C4 -----------------------------------------------------------------------
BuildOps ==
    {"build_index", "build_member_to_parent_index",
     "build_parent_to_member_index", "build_indexes"}

StashOps == {"add", "add_members", "empty", "size"} \cup BuildOps

\* the call of this step fails as a contract violation: the program is
\* aborted, no state is changed and no index is returned
DetectedAsContractFailure ==
    /\ ~last'.ok
    /\ aborted'
    /\ UNCHANGED <<live, stash, log, returned, frozen, budget>>

\* C4 as stated: once a build_* call has executed on a stash, every later add,
\* add_members, empty, size or build_* call on that stash is detected as a
\* contract failure.
C4_UseAfterBuildDetected ==
    [][(last'.op \in StashOps /\ last'.s \in frozen) => DetectedAsContractFailure]_vars

\* C4 as amended: in a build with asserts a build_* call that executes leaves
\* m_valid false, m_valid stays false until a stash whose m_valid is true is
\* move-assigned into the stash, and every add, add_members, empty, size or
\* build_* call on a stash whose m_valid is false is detected as a contract
\* failure; in a build with NDEBUG every such call completes normally.
C4_UseAfterBuildDetectedByAssert ==
    [][/\ (~NDEBUG /\ last'.op \in BuildOps /\ last'.ok)
            => ~stash'[last'.s].m_valid
       /\ \A s \in Stashes :
            (live[s] /\ ~stash[s].m_valid /\ stash'[s].m_valid)
                => /\ last'.op = "move_assign" /\ last'.s = s
                   /\ stash[last'.ret].m_valid
       /\ (~NDEBUG /\ last'.op \in StashOps /\ ~stash[last'.s].m_valid)
            => DetectedAsContractFailure
       /\ (NDEBUG /\ last'.op \in StashOps) => last'.ok /\ ~aborted'
      ]_vars

\* in a build with asserts, add on a stash an index was built from has aborted
C4_Witness ==
    /\ ~NDEBUG /\ aborted
    /\ last.op = "add" /\ ~last.ok /\ last.s \in frozen
    /\ returned.kind = "index" /\ Len(returned.m_map) = 1

\* ---- C5 -----------------------------------------------------------------------
\* the stash object s is in the consumed state
Consumed(s) == live[s] /\ ~stash[s].m_valid

\* the call of this step is a build_* call on s that executes
BuildExecutes(s) == last'.op \in BuildOps /\ last'.s = s /\ last'.ok

\* C5 as stated: the first build_* call that executes makes the stash
\* consumed and hands all its entries to the returned index; from then on, in
\* every state and whatever is done (moves included), the stash is consumed
\* and holds no entries.
C5_ConsumedIsTerminal ==
    [][\A s \in Stashes :
         /\ BuildExecutes(s)
              => /\ Consumed(s)'
                 /\ returned'.log = log[s]
         /\ s \in frozen' => Consumed(s)' /\ stash'[s].m_map = <<>>
         /\ Consumed(s) => Consumed(s)'
      ]_vars

\* C5 as amended: a build_* call that executes hands all entries of the stash
\* to the returned index and leaves the stash without entries; in a build
\* with asserts it makes the stash consumed (m_valid false), and a consumed
\* stash holds no entries and stays consumed under every operation, move
\* construction and move assignment from it included, except that move
\* assignment of a stash that is not consumed into it makes it usable again;
\* in a build with NDEBUG no stash is ever consumed.
C5_ConsumedUntilMoveAssigned ==
    [][\A s \in Stashes :
         /\ BuildExecutes(s)
              => /\ returned'.log = log[s]
                 /\ stash'[s].m_map = <<>> /\ log'[s] = <<>>
                 /\ ~NDEBUG => Consumed(s)'
         /\ Consumed(s)' => stash'[s].m_map = <<>>
         /\ (Consumed(s) /\ ~Consumed(s)')
              => /\ last'.op = "move_assign" /\ last'.s = s
                 /\ ~Consumed(last'.ret)
         /\ NDEBUG => ~Consumed(s)'
      ]_vars

\* a stash an index was built from is usable again after a move assignment
C5_Witness ==
    /\ ~NDEBUG
    /\ last.op = "move_assign" /\ last.s \in frozen
    /\ returned.kind # "none"
    /\ stash[last.s].m_valid /\ stash[last.s].m_map # <<>>

\* ---- C11 ----------------------------------------------------------------------
\* entries a and b, held at consecutive positions, are in strictly increasing
\* lexicographic (key, value) order
InOrder(a, b) == a.key < b.key \/ (a.key = b.key /\ a.value < b.value)

StrictlyIncreasing(m) == \A i \in 1..(Len(m) - 1) : InOrder(m[i], m[i + 1])

\* what std::equal_range requires of the range for the looked-up key: the
\* entries with a smaller key come first, then those with the key itself,
\* then those with a greater key
PartitionedBy(m, key) ==
    \A i, j \in 1..Len(m) :
       i < j => /\ m[j].key < key => m[i].key < key
                /\ m[j].key <= key => m[i].key <= key

\* C11: in every reachable state every RelationsMapIndex there is (the one a
\* build_* call returned, or the two sides of the returned RelationsMapIndexes)
\* holds its entries in strictly increasing lexicographic (key, value) order,
\* so no entry occurs twice, and the entries are partitioned as the lookup of
\* any key requires, in particular at every for_each / for_each_parent call.
C11_IndexStrictlyIncreasing ==
    \A side \in Sides :
       /\ StrictlyIncreasing(returned[side])
       /\ \A i, j \in 1..Len(returned[side]) :
             i # j => returned[side][i] # returned[side][j]
       /\ \A id \in Ids : PartitionedBy(returned[side], static_cast_uint32(id))
       /\ (last.op \in {"for_each", "for_each_parent"} /\ last.s = side)
             => PartitionedBy(returned[side], static_cast_uint32(last.arg))

\* for_each was called on the parent-to-member side of indexes built from
\* pairs added in descending order, one of them twice
C11_Witness ==
    /\ returned.kind = "indexes"
    /\ returned.log = << <<Id(0, 2), Id(0, 2)>>, <<Id(0, 2), Id(0, 1)>>,
                         <<Id(0, 2), Id(0, 2)>> >>
    /\ last.op = "for_each" /\ last.s = "m_parent_to_member"
    /\ Len(last.ret) = 1

\* ---- C12 ----------------------------------------------------------------------
\* what the call reader r is in returns when it runs alone on the index
Sequentially(r) ==
    LET m_map == returned[readers[r].side]
    IN  CASE readers[r].op = "for_each" ->
               [visited |-> for_each(m_map, readers[r].id), ret |-> 0]
          [] readers[r].op = "for_each_parent" ->
               [visited |-> for_each_parent(m_map, readers[r].id), ret |-> 0]
          [] readers[r].op = "empty" ->
               [visited |-> <<>>, ret |-> RelationsMapIndex_empty(m_map)]
          [] readers[r].op = "size" ->
               [visited |-> <<>>, ret |-> RelationsMapIndex_size(m_map)]

SameCall(r1, r2) ==
    /\ readers[r1].op = readers[r2].op
    /\ readers[r1].side = readers[r2].side
    /\ readers[r1].id = readers[r2].id

\* C12: no step of a for_each, for_each_parent, size or empty call changes the
\* index it reads; however the steps of two threads' calls on the same index
\* interleave, every call that returns has visited, or returns, what the same
\* call does when it runs alone, a call under way has visited a prefix of
\* that, and two identical calls that have returned agree.
C12_ConcurrentReadsAsSequential ==
    /\ [][readers' # readers => returned' = returned]_vars
    /\ [](\A r \in Readers :
            /\ readers[r].pc = "done"
                 => /\ readers[r].visited = Sequentially(r).visited
                    /\ readers[r].ret = Sequentially(r).ret
            /\ readers[r].pc = "loop"
                 => /\ Len(readers[r].visited) <= Len(Sequentially(r).visited)
                    /\ readers[r].visited
                         = SubSeq(Sequentially(r).visited, 1, Len(readers[r].visited)))
    /\ [](\A r1, r2 \in Readers :
            (readers[r1].pc = "done" /\ readers[r2].pc = "done" /\ SameCall(r1, r2))
               => /\ readers[r1].visited = readers[r2].visited
                  /\ readers[r1].ret = readers[r2].ret)

\* one thread has returned from for_each after two visits while the other is
\* between the two visits of the same call
C12_Witness ==
    /\ readers["r1"].pc = "loop" /\ readers["r1"].op = "for_each"
    /\ Len(readers["r1"].visited) = 1
    /\ readers["r1"].it # readers["r1"].second
    /\ readers["r2"].pc = "done" /\ SameCall("r1", "r2")
    /\ Len(readers["r2"].visited) = 2

\* ---- C13 ----------------------------------------------------------------------
\* the added pairs of log l with every identifier replaced by its value
\* modulo 2^32
Narrowed(l) == [i \in 1..Len(l) |-> <<Mod2to32(l[i][1]), Mod2to32(l[i][2])>>]

\* C13: add(k, v) completes on every stash that is not consumed, whatever k
\* and v are, and stores (k mod 2^32, v mod 2^32); for_each(id) visits what
\* for_each(id mod 2^32) visits, and every visited value is below 2^32; an
\* index built from added pairs is the index built from the same pairs taken
\* modulo 2^32, so identifiers congruent modulo 2^32 cannot be told apart as
\* keys or as values.
C13_NarrowedSilently ==
    /\ \A s \in Stashes :
         /\ (last.op = "add" /\ last.s = s /\ ~last.ok) => Consumed(s)
         /\ Len(stash[s].m_map) = Len(log[s])
         /\ \A i \in 1..Len(log[s]) :
               /\ stash[s].m_map[i].key = log[s][i][1].lo
               /\ stash[s].m_map[i].value = log[s][i][2].lo
         /\ build_indexes(stash[s].m_map) = build_indexes(Populated(Narrowed(log[s])))
    /\ \A side \in Sides :
         /\ \A id \in Ids :
               /\ for_each(returned[side], id) = for_each(returned[side], Mod2to32(id))
               /\ \A v \in Range(for_each(returned[side], id)) : Below2to32(v)
         /\ (last.op = "for_each" /\ last.s = side)
               => last.ret = for_each(returned[side], Mod2to32(last.arg))
    /\ returned.by = "build_indexes"
         => /\ returned.m_member_to_parent
                 = build_indexes(Populated(Narrowed(returned.log)))[1]
            /\ returned.m_parent_to_member
                 = build_indexes(Populated(Narrowed(returned.log)))[2]

\* only 2^32 + 1 was added as a key and as a value, and for_each(1) visited 1
C13_Witness ==
    /\ returned.kind = "index"
    /\ returned.log = << <<Id(1, 1), Id(1, 1)>> >>
    /\ last.op = "for_each" /\ last.arg = Id(0, 1)
    /\ last.ret = <<Id(0, 1)>>

\* ---- C14 ----------------------------------------------------------------------
\* entry b is entry a with key and value swapped
Swapped(a, b) == b.key = a.value /\ b.value = a.key

\* C14: flip_copy() of what a stash holds is a map of the same length whose
\* i-th entry is the i-th entry of the stash with key and value swapped, and
\* the stash's own entries are what the add calls stored, in their order; in
\* build_indexes the member-to-parent side is the stash's map sorted and
\* deduplicated, as build_member_to_parent_index makes it, whatever is done
\* to the reverse copy, and the reverse side holds the swapped entries of the
\* member-to-parent side.
C14_FlipCopyLeavesOriginal ==
    /\ \A s \in Stashes :
         LET m_map == stash[s].m_map
             reverse_map == flip_copy(m_map)
         IN  /\ Len(reverse_map) = Len(m_map)
             /\ \A i \in 1..Len(m_map) : Swapped(m_map[i], reverse_map[i])
             /\ m_map = Populated(log[s])
             /\ build_indexes(m_map)[1] = sort_unique(m_map)
             /\ build_indexes(m_map)[2] = sort_unique(reverse_map)
             /\ build_indexes(m_map)[1] = build_member_to_parent_index(m_map)
    /\ returned.by = "build_indexes"
         => /\ returned.m_member_to_parent
                 = build_member_to_parent_index(Populated(returned.log))
            /\ \A a \in Range(returned.m_member_to_parent) :
                  \E b \in Range(returned.m_parent_to_member) : Swapped(a, b)
            /\ \A b \in Range(returned.m_parent_to_member) :
                  \E a \in Range(returned.m_member_to_parent) : Swapped(a, b)

\* build_indexes ran on a stash whose reverse copy sorts to other entries,
\* in another order, than the stash itself
C14_Witness ==
    /\ last.op = "build_indexes" /\ last.ok
    /\ returned.log = << <<Id(0, 2), Id(0, 1)>>, <<Id(0, 2), Id(0, 1)>>,
                         <<Id(0, 1), Id(0, 1)>> >>
    /\ returned.m_member_to_parent # returned.m_parent_to_member
    /\ Len(returned.m_member_to_parent) = 2

\* ---- C15 ----------------------------------------------------------------------
\* the index was returned by one of the three operations C15 names
BuiltByNamedOperation ==
    returned.by \in {"build_member_to_parent_index",
                     "build_parent_to_member_index", "build_indexes"}

\* size() of every index the named operations returned is n, and so is every
\* size() result read from them
EverySizeIs(n) ==
    BuiltByNamedOperation
       => /\ \A side \in Sides : RelationsMapIndex_size(returned[side]) = n
          /\ last.op \in {"index_size", "indexes_size"} => last.ret = n

\* C15 as stated: the size() of an index returned by
\* build_member_to_parent_index(), build_parent_to_member_index() or either
\* side of build_indexes() is the number of distinct (member, parent) pairs
\* added to the stash, however often each pair was added.
C15_SizeIsDistinctPairs ==
    EverySizeIs(Cardinality(Range(returned.log)))

\* C15 as amended: that size() is the number of distinct pairs
\* (member mod 2^32, parent mod 2^32) among the added pairs, however often
\* each was added; it is the number of distinct added pairs when all added
\* identifiers are below 2^32.
C15_SizeIsDistinctPairsMod2to32 ==
    /\ EverySizeIs(Cardinality(Range(Narrowed(returned.log))))
    /\ AllBelow2to32(returned.log)
         => EverySizeIs(Cardinality(Range(returned.log)))

\* size() was read as 2 from an index built from three adds of which two
\* repeat one pair
C15_Witness ==
    /\ BuiltByNamedOperation /\ returned.kind = "index"
    /\ last.op = "index_size" /\ last.ret = 2
    /\ Len(returned.log) = 3 /\ returned.log[1] = returned.log[3]
    /\ AllBelow2to32(returned.log)

\* ---- C16 ----------------------------------------------------------------------
\* the sequences of add calls as long as l, or one call longer, that add the
\* same set of pairs as l: the calls of l in any order, with any repeats
SameSetOfPairs(l) ==
    {l2 \in UNION {[1..n -> Range(l)] : n \in {Len(l), Len(l) + 1}} :
        Range(l2) = Range(l)}

\* the entries of a set of added pairs in an index of the given direction
EntriesOfPairs(pairs, flipped) ==
    {IF flipped THEN kv_pair(p[2], p[1]) ELSE kv_pair(p[1], p[2]) : p \in pairs}

\* the one strictly increasing sequence of a set of entries: a function of
\* the set alone
RECURSIVE Ascending(_)
Ascending(entries) ==
    IF entries = {} THEN <<>>
    ELSE LET least == CHOOSE a \in entries :
                         \A b \in entries \ {a} : InOrder(a, b)
         IN  <<least>> \o Ascending(entries \ {least})

\* C16: the maps each build_* operation makes of a stash are those it makes
\* of a stash fed any other sequence of calls that adds the same set of
\* pairs, in any order and with any repeats; every returned map is the
\* ascending sequence of the set of pairs that were added, a function of
\* that set alone.
C16_IndexDependsOnSetOfPairs ==
    /\ \A s \in Stashes :
         \A l2 \in SameSetOfPairs(log[s]) :
            /\ build_index(Populated(l2)) = build_index(stash[s].m_map)
            /\ build_member_to_parent_index(Populated(l2))
                 = build_member_to_parent_index(stash[s].m_map)
            /\ build_parent_to_member_index(Populated(l2))
                 = build_parent_to_member_index(stash[s].m_map)
            /\ build_indexes(Populated(l2)) = build_indexes(stash[s].m_map)
    /\ \A side \in Sides :
         returned[side]
            = Ascending(EntriesOfPairs(Range(returned.log), ParentToMember(side)))

\* a parent-to-member index was built from three adds, out of order and
\* with one pair repeated
C16_Witness ==
    /\ last.op = "build_parent_to_member_index" /\ last.ok
    /\ returned.log = << <<Id(0, 2), Id(0, 1)>>, <<Id(0, 1), Id(0, 2)>>,
                         <<Id(0, 2), Id(0, 1)>> >>
    /\ Len(returned.m_map) = 2

\* ---- C17 ----------------------------------------------------------------------
\* the stash object s is in the Building state
Building(s) == live[s] /\ stash[s].m_valid

\* the call of this step is op on s, and it completes
Completes(op, s) == last'.op = op /\ last'.s = s /\ last'.ok

NumberOfRelationMembers(rel) ==
    Cardinality({i \in 1..Len(rel.members) : rel.members[i].type = "relation"})

\* what add, add_members, empty and size do to the size of a Building stash
SizeCountsAppends(s) ==
    LET n == Len(stash[s].m_map)
    IN  /\ Completes("add", s) => Len(stash'[s].m_map) = n + 1
        /\ Completes("add_members", s)
             => Len(stash'[s].m_map) = n + NumberOfRelationMembers(relation)
        /\ (Completes("empty", s) \/ Completes("size", s))
             => /\ stash' = stash
                /\ returned' = returned
        /\ Completes("size", s) => last'.ret = n
        /\ Completes("empty", s) => last'.ret = (n = 0)

\* this step moves the entries of stash s away, or replaces them by those of
\* another stash
Moves(s) ==
    /\ last'.op \in {"move_construct", "move_assign"}
    /\ last'.s = s \/ last'.ret = s

\* C17 as stated: on a stash in the Building state each add increases size()
\* by exactly 1, each add_members increases it by exactly the number of
\* relation-typed members, empty() and size() change nothing, and the size is
\* never reduced before a build_* call, so size() is the number of pairs
\* appended so far counting duplicates.
C17_SizeCountsAppendsUntilBuild ==
    [][\A s \in Stashes :
         Building(s)
            => /\ SizeCountsAppends(s)
               /\ Len(stash'[s].m_map) < Len(stash[s].m_map) => BuildExecutes(s)
      ]_vars

\* C17 as amended: the same, except that the size is also reduced, before
\* any build_* call, when the stash is moved from, which hands its pairs to
\* the target and leaves it with size 0, and when another stash is
\* move-assigned to it, which gives it the size of the source; size() is the
\* number of pairs, counting duplicates, appended to the stash, or to the
\* stash its content was moved from, and not moved away since.
C17_SizeCountsAppendsUntilBuildOrMove ==
    /\ [][\A s \in Stashes :
            Building(s)
               => /\ SizeCountsAppends(s)
                  /\ Len(stash'[s].m_map) < Len(stash[s].m_map)
                       => BuildExecutes(s) \/ Moves(s)
                  /\ (Moves(s) /\ last'.ret = s)
                       => /\ Len(stash'[s].m_map) = 0
                          /\ Len(stash'[last'.s].m_map) = Len(stash[s].m_map)
         ]_vars
    /\ [](\A s \in Stashes : Len(stash[s].m_map) = Len(log[s]))

\* size() was read as 2 from a stash in the Building state to which one pair
\* was appended twice
C17_Witness ==
    /\ last.op = "size" /\ last.ok /\ last.ret = 2
    /\ Building(last.s)
    /\ Len(log[last.s]) = 2 /\ log[last.s][1] = log[last.s][2]

====
